---- MODULE Spec2Model ----
(***************************************************************************)
(* Model of agilerl/utils/utils.py: create_population,                     *)
(* calculate_vectorized_scores and get_env_defined_actions.                *)
(*                                                                         *)
(* Each function is a state machine of its own (SpecPop, SpecScores,       *)
(* SpecEda); the variables of the two functions that are not running stay  *)
(* at their idle values.  Python's 0-based indices are kept: arrays are    *)
(* functions over 0..n-1, Python lists are sequences.                      *)
(***************************************************************************)
EXTENDS Integers, Sequences, FiniteSets, TLC

VARIABLES
    \* ---- calculate_vectorized_scores ----
    rewards,              \* np.ndarray (num_envs x num_steps)
    terminations,         \* np.ndarray (num_envs x num_steps) of 0/1
    include_unterminated, \* bool argument
    only_first_episode,   \* bool argument
    env_index,            \* outer loop variable (line 393)
    termination_indices,  \* np.where(...)[0] of the current row (line 395)
    term_pos,             \* position of the inner for loop in termination_indices
    start_index,          \* local of lines 404/420
    episode_rewards,      \* the list that is returned
    score_env,            \* history: env_index at the time of each append
    score_window,         \* history: the slice <<lo, hi>> each append summed
    pc_s,                 \* "idle" | "row" | "episode" | "tail" | "done"
    \* ---- create_population ----
    algo,                 \* str argument
    INIT_HP,              \* dict argument: hyperparameter name -> value
    population_size,      \* int argument
    idx,                  \* loop variable of `for idx in range(population_size)`
    population,           \* the list that is returned
    lookups,              \* history: the INIT_HP keys subscripted so far
    ctor_calls,           \* history: number of agent constructor calls
    pc_p,                 \* "idle" | "loop" | "returned" | "raised"
    \* ---- get_env_defined_actions ----
    info,                 \* dict argument: agent -> info dict
    agents,               \* sequence argument of agent ids
    env_defined_actions,  \* the dict built at lines 465-467
    eda_result,           \* what the call produced
    pc_e                  \* "idle" | "build" | "check" | "returned" | "raised"

scoreVars == <<rewards, terminations, include_unterminated, only_first_episode,
               env_index, termination_indices, term_pos, start_index,
               episode_rewards, score_env, score_window, pc_s>>
popVars == <<algo, INIT_HP, population_size, idx, population, lookups,
             ctor_calls, pc_p>>
edaVars == <<info, agents, env_defined_actions, eda_result, pc_e>>
vars == <<scoreVars, popVars, edaVars>>

(***************************************************************************)
(* Bounds of the model.                                                    *)
(***************************************************************************)
MaxEnvs == 2
MaxSteps == 3
MaxPop == 2
MaxAgents == 2

(***************************************************************************)
(* calculate_vectorized_scores (lines 370-431)                             *)
(***************************************************************************)

\* The marker of a local that has not been assigned yet.
Unbound == -1

\* len(x) of a 0-based array
ArrLen(row) == Cardinality(DOMAIN row)

\* np.sum(row[lo:hi]): Python slice semantics, hi clamped to the row length
RECURSIVE SumSlice(_, _, _)
SumSlice(row, lo, hi) ==
    IF lo >= hi \/ lo >= ArrLen(row)
    THEN 0
    ELSE row[lo] + SumSlice(row, lo + 1, hi)

\* np.sum(row)
SumAll(row) == SumSlice(row, 0, ArrLen(row))

\* np.where(row == 1)[0]: the indices holding 1, ascending
RECURSIVE WhereFrom(_, _)
WhereFrom(row, i) ==
    IF i >= ArrLen(row)
    THEN <<>>
    ELSE IF row[i] = 1
         THEN <<i>> \o WhereFrom(row, i + 1)
         ELSE WhereFrom(row, i + 1)

WhereOne(row) == WhereFrom(row, 0)

\* num_envs, _ = rewards.shape
NumEnvs == ArrLen(rewards)

\* The reward arrays the calls are made with.  No branch of the function
\* reads a reward, so the values are fixed per position: "distinct" gives
\* every step its own power of two (a sum then names the set of steps that
\* went into it), "mixed" has negative, zero and repeated rewards.
RewardSchemes == {"distinct", "mixed"}

RewardArray(scheme, n, w) ==
    [e \in 0..(n - 1) |->
        [s \in 0..(w - 1) |->
            IF scheme = "distinct" THEN 2 ^ (e * w + s) ELSE ((e + 2 * s) % 3) - 1]]

ScoresIdle ==
    /\ rewards = <<>>
    /\ terminations = <<>>
    /\ include_unterminated = FALSE
    /\ only_first_episode = FALSE
    /\ env_index = 0
    /\ termination_indices = <<>>
    /\ term_pos = 0
    /\ start_index = Unbound
    /\ episode_rewards = <<>>
    /\ score_env = <<>>
    /\ score_window = <<>>
    /\ pc_s = "idle"

\* The call: lines 390-391.
ScoresInit ==
    /\ \E n \in 0..MaxEnvs, w \in 0..MaxSteps :
          /\ \E scheme \in RewardSchemes : rewards = RewardArray(scheme, n, w)
          /\ terminations \in [0..(n - 1) -> [0..(w - 1) -> {0, 1}]]
    /\ include_unterminated \in BOOLEAN
    /\ only_first_episode \in BOOLEAN
    /\ env_index = 0
    /\ termination_indices = <<>>
    /\ term_pos = 0
    /\ start_index = Unbound
    /\ episode_rewards = <<>>
    /\ score_env = <<>>
    /\ score_window = <<>>
    /\ pc_s = "row"

\* episode_rewards.append(np.sum(rewards[env_index, lo:hi])) inside the
\* iteration of row env_index
AppendScore(lo, hi) ==
    /\ episode_rewards' =
           Append(episode_rewards, SumSlice(rewards[env_index], lo, hi))
    /\ score_env' = Append(score_env, env_index)
    /\ score_window' = Append(score_window, <<lo, hi>>)

\* A variant of NextStart: the next episode starts on the termination step.
NextStartOverlap(termination_index) == termination_index

\* Line 420: where the next episode starts.
NextStart(termination_index) == termination_index + 1

\* A variant of NoTerminations: a row without termination counts as an
\* unterminated episode and is appended only when include_unterminated.
NoTerminationsAsUnterminated ==
    /\ pc_s = "row"
    /\ env_index < NumEnvs
    /\ Len(WhereOne(terminations[env_index])) = 0
    /\ termination_indices' = WhereOne(terminations[env_index])
    /\ IF include_unterminated
       THEN AppendScore(0, ArrLen(rewards[env_index]))
       ELSE UNCHANGED <<episode_rewards, score_env, score_window>>
    /\ env_index' = env_index + 1
    /\ UNCHANGED <<rewards, terminations, include_unterminated,
                   only_first_episode, term_pos, start_index, pc_s>>
    /\ UNCHANGED <<popVars, edaVars>>

\* Lines 395-401: a row without termination is summed whole; `continue`.
NoTerminations ==
    /\ pc_s = "row"
    /\ env_index < NumEnvs
    /\ Len(WhereOne(terminations[env_index])) = 0
    /\ termination_indices' = WhereOne(terminations[env_index])
    /\ AppendScore(0, ArrLen(rewards[env_index]))
    /\ env_index' = env_index + 1
    /\ UNCHANGED <<rewards, terminations, include_unterminated,
                   only_first_episode, term_pos, start_index, pc_s>>
    /\ UNCHANGED <<popVars, edaVars>>

\* A variant of BeginSegmenting: start_index is initialised once, before the
\* loop over the rows, and not again for each row.
BeginSegmentingKeepStart ==
    /\ pc_s = "row"
    /\ env_index < NumEnvs
    /\ Len(WhereOne(terminations[env_index])) # 0
    /\ termination_indices' = WhereOne(terminations[env_index])
    /\ start_index' = IF start_index = Unbound THEN 0 ELSE start_index
    /\ term_pos' = 1
    /\ pc_s' = "episode"
    /\ UNCHANGED <<rewards, terminations, include_unterminated,
                   only_first_episode, env_index, episode_rewards, score_env,
                   score_window>>
    /\ UNCHANGED <<popVars, edaVars>>

\* Lines 395-404: a row with terminations; start_index = 0, enter the loop.
BeginSegmenting ==
    /\ pc_s = "row"
    /\ env_index < NumEnvs
    /\ Len(WhereOne(terminations[env_index])) # 0
    /\ termination_indices' = WhereOne(terminations[env_index])
    /\ start_index' = 0
    /\ term_pos' = 1
    /\ pc_s' = "episode"
    /\ UNCHANGED <<rewards, terminations, include_unterminated,
                   only_first_episode, env_index, episode_rewards, score_env,
                   score_window>>
    /\ UNCHANGED <<popVars, edaVars>>

\* Lines 406-420: one iteration of `for termination_index in termination_indices`.
EpisodeStep ==
    /\ pc_s = "episode"
    /\ term_pos <= Len(termination_indices)
    /\ LET termination_index == termination_indices[term_pos]
       IN /\ AppendScore(start_index, termination_index + 1)
          /\ IF only_first_episode
             THEN /\ pc_s' = "tail"
                  /\ UNCHANGED <<start_index, term_pos>>
             ELSE /\ start_index' = NextStart(termination_index)
                  /\ term_pos' = term_pos + 1
                  /\ pc_s' = IF term_pos = Len(termination_indices)
                             THEN "tail" ELSE "episode"
    /\ UNCHANGED <<rewards, terminations, include_unterminated,
                   only_first_episode, env_index, termination_indices>>
    /\ UNCHANGED <<popVars, edaVars>>

\* Variants of TailCondition: the last step alone is not a trailing episode;
\* the first-episode guard is missing; an empty trailing slice is taken too.
TailConditionOffByOne ==
    /\ ~only_first_episode
    /\ include_unterminated
    /\ start_index < ArrLen(rewards[env_index]) - 1

TailConditionNoFirstGuard ==
    /\ include_unterminated
    /\ start_index < ArrLen(rewards[env_index])

TailConditionLeq ==
    /\ ~only_first_episode
    /\ include_unterminated
    /\ start_index <= ArrLen(rewards[env_index])

\* The condition of lines 423-427.
TailCondition ==
    /\ ~only_first_episode
    /\ include_unterminated
    /\ start_index < ArrLen(rewards[env_index])

\* Lines 423-429, then the next iteration of the outer loop.
TrailingEpisode ==
    /\ pc_s = "tail"
    /\ IF TailCondition
       THEN AppendScore(start_index, ArrLen(rewards[env_index]))
       ELSE UNCHANGED <<episode_rewards, score_env, score_window>>
    /\ env_index' = env_index + 1
    /\ pc_s' = "row"
    /\ UNCHANGED <<rewards, terminations, include_unterminated,
                   only_first_episode, termination_indices, term_pos,
                   start_index>>
    /\ UNCHANGED <<popVars, edaVars>>

\* Line 431: return episode_rewards.
ReturnScores ==
    /\ pc_s = "row"
    /\ env_index >= NumEnvs
    /\ pc_s' = "done"
    /\ UNCHANGED <<rewards, terminations, include_unterminated,
                   only_first_episode, env_index, termination_indices,
                   term_pos, start_index, episode_rewards, score_env,
                   score_window>>
    /\ UNCHANGED <<popVars, edaVars>>

(***************************************************************************)
(* create_population (lines 62-367)                                        *)
(***************************************************************************)

\* The strings the if/elif chain of lines 109-348 compares algo with.
RecognizedAlgos ==
    {"DQN", "Rainbow DQN", "DDPG", "PPO", "CQN", "TD3", "MADDPG", "MATD3",
     "NeuralUCB", "NeuralTS"}

\* Some strings the chain does not compare with.
OtherAlgos == {"", "dqn", "RainbowDQN", "A2C"}

\* INIT_HP[...] subscripts of each branch, in the order Python evaluates the
\* keyword arguments of the constructor call.
DQNKeys == <<"BATCH_SIZE", "LR", "LEARN_STEP", "GAMMA", "TAU", "DOUBLE">>

RainbowDQNKeys ==
    <<"BATCH_SIZE", "LR", "LEARN_STEP", "GAMMA", "TAU", "BETA", "PRIOR_EPS",
      "NUM_ATOMS", "V_MIN", "V_MAX", "N_STEP">>

DDPGKeys ==
    <<"MAX_ACTION", "MIN_ACTION", "O_U_NOISE", "EXPL_NOISE", "MEAN_NOISE",
      "THETA", "DT", "BATCH_SIZE", "LR_ACTOR", "LR_CRITIC", "LEARN_STEP",
      "GAMMA", "TAU", "POLICY_FREQ">>

PPOKeys ==
    <<"DISCRETE_ACTIONS", "BATCH_SIZE", "LR", "LEARN_STEP", "GAMMA",
      "GAE_LAMBDA", "ACTION_STD_INIT", "CLIP_COEF", "ENT_COEF", "VF_COEF",
      "MAX_GRAD_NORM", "TARGET_KL", "UPDATE_EPOCHS">>

CQNKeys == <<"BATCH_SIZE", "LR", "LEARN_STEP", "GAMMA", "TAU", "DOUBLE">>

TD3Keys ==
    <<"MAX_ACTION", "MIN_ACTION", "O_U_NOISE", "EXPL_NOISE", "MEAN_NOISE",
      "THETA", "DT", "BATCH_SIZE", "LR_ACTOR", "LR_CRITIC", "LEARN_STEP",
      "GAMMA", "TAU", "POLICY_FREQ">>

MADDPGKeys ==
    <<"N_AGENTS", "AGENT_IDS", "O_U_NOISE", "EXPL_NOISE", "MEAN_NOISE",
      "THETA", "DT", "MAX_ACTION", "MIN_ACTION", "BATCH_SIZE", "LR_ACTOR",
      "LR_CRITIC", "LEARN_STEP", "GAMMA", "TAU", "DISCRETE_ACTIONS">>

MATD3Keys ==
    <<"N_AGENTS", "AGENT_IDS", "O_U_NOISE", "EXPL_NOISE", "MEAN_NOISE",
      "THETA", "DT", "MAX_ACTION", "MIN_ACTION", "BATCH_SIZE", "LR_ACTOR",
      "LR_CRITIC", "POLICY_FREQ", "LEARN_STEP", "GAMMA", "TAU",
      "DISCRETE_ACTIONS">>

NeuralUCBKeys ==
    <<"GAMMA", "LAMBDA", "REG", "BATCH_SIZE", "LR", "LEARN_STEP">>

\* A variant of NeuralTSKeys: the reg argument is not forwarded.
NeuralTSKeysNoReg == <<"GAMMA", "LAMBDA", "BATCH_SIZE", "LR", "LEARN_STEP">>

NeuralTSKeys ==
    <<"GAMMA", "LAMBDA", "REG", "BATCH_SIZE", "LR", "LEARN_STEP">>

NoKeys == <<>>

\* A variant of Branch: a final else that falls back to DQN.
BranchDefaultDQN(a) ==
    CASE a = "DQN"         -> [cls |-> "DQN", keys |-> DQNKeys]
      [] a = "Rainbow DQN" -> [cls |-> "RainbowDQN", keys |-> RainbowDQNKeys]
      [] a = "DDPG"        -> [cls |-> "DDPG", keys |-> DDPGKeys]
      [] a = "PPO"         -> [cls |-> "PPO", keys |-> PPOKeys]
      [] a = "CQN"         -> [cls |-> "CQN", keys |-> CQNKeys]
      [] a = "TD3"         -> [cls |-> "TD3", keys |-> TD3Keys]
      [] a = "MADDPG"      -> [cls |-> "MADDPG", keys |-> MADDPGKeys]
      [] a = "MATD3"       -> [cls |-> "MATD3", keys |-> MATD3Keys]
      [] a = "NeuralUCB"   -> [cls |-> "NeuralUCB", keys |-> NeuralUCBKeys]
      [] a = "NeuralTS"    -> [cls |-> "NeuralTS", keys |-> NeuralTSKeys]
      [] OTHER             -> [cls |-> "DQN", keys |-> DQNKeys]

\* The branch of the if/elif chain taken for algo: the class it constructs
\* and the keys it subscripts; no branch ("none") when no comparison matches.
Branch(a) ==
    CASE a = "DQN"         -> [cls |-> "DQN", keys |-> DQNKeys]
      [] a = "Rainbow DQN" -> [cls |-> "RainbowDQN", keys |-> RainbowDQNKeys]
      [] a = "DDPG"        -> [cls |-> "DDPG", keys |-> DDPGKeys]
      [] a = "PPO"         -> [cls |-> "PPO", keys |-> PPOKeys]
      [] a = "CQN"         -> [cls |-> "CQN", keys |-> CQNKeys]
      [] a = "TD3"         -> [cls |-> "TD3", keys |-> TD3Keys]
      [] a = "MADDPG"      -> [cls |-> "MADDPG", keys |-> MADDPGKeys]
      [] a = "MATD3"       -> [cls |-> "MATD3", keys |-> MATD3Keys]
      [] a = "NeuralUCB"   -> [cls |-> "NeuralUCB", keys |-> NeuralUCBKeys]
      [] a = "NeuralTS"    -> [cls |-> "NeuralTS", keys |-> NeuralTSKeys]
      [] OTHER             -> [cls |-> "none", keys |-> NoKeys]

SeqRange(s) == {s[i] : i \in 1..Len(s)}

\* Every hyperparameter name some branch subscripts.
HPKeys == UNION {SeqRange(Branch(a).keys) : a \in RecognizedAlgos}

\* The value configured under a hyperparameter name (opaque to this file).
HPValue(k) == <<"value of", k>>

\* The hyperparameter dicts the calls are made with: complete, lacking one
\* name, or empty.
HPDicts ==
    {[k \in HPKeys |-> HPValue(k)]}
    \cup {[k \in HPKeys \ {m} |-> HPValue(k)] : m \in HPKeys}
    \cup {[k \in {} |-> HPValue(k)]}

\* Position of the first subscript of `keys` that raises KeyError on hp,
\* 0 when every subscript succeeds.
RECURSIVE FirstMissingFrom(_, _, _)
FirstMissingFrom(keys, hp, i) ==
    IF i > Len(keys)
    THEN 0
    ELSE IF keys[i] \notin DOMAIN hp
         THEN i
         ELSE FirstMissingFrom(keys, hp, i + 1)

FirstMissing(keys, hp) == FirstMissingFrom(keys, hp, 1)

\* A variant of NewAgent: indices count from one.
NewAgentIndexFromOne(cls, i, keys, hp) ==
    [cls |-> cls, index |-> i + 1, hp |-> [k \in SeqRange(keys) |-> hp[k]]]

\* The agent a constructor call of the loop body builds: index=idx, and the
\* hyperparameters forwarded from INIT_HP.
NewAgent(cls, i, keys, hp) ==
    [cls |-> cls, index |-> i, hp |-> [k \in SeqRange(keys) |-> hp[k]]]

PopIdle ==
    /\ algo = ""
    /\ INIT_HP = <<>>
    /\ population_size = 0
    /\ idx = Unbound
    /\ population = <<>>
    /\ lookups = {}
    /\ ctor_calls = 0
    /\ pc_p = "idle"

\* The call: line 108, population = [].
PopInit ==
    /\ algo \in RecognizedAlgos \cup OtherAlgos
    /\ INIT_HP \in HPDicts
    /\ population_size \in 0..MaxPop
    /\ idx = 0
    /\ population = <<>>
    /\ lookups = {}
    /\ ctor_calls = 0
    /\ pc_p = "loop"

\* One iteration of `for idx in range(population_size)` in the branch of
\* algo: every subscript succeeds, the constructor is called, the agent is
\* appended.
ConstructAgent ==
    /\ pc_p = "loop"
    /\ Branch(algo).cls # "none"
    /\ idx < population_size
    /\ FirstMissing(Branch(algo).keys, INIT_HP) = 0
    /\ lookups' = lookups \cup SeqRange(Branch(algo).keys)
    /\ ctor_calls' = ctor_calls + 1
    /\ population' = Append(population,
                            NewAgent(Branch(algo).cls, idx, Branch(algo).keys,
                                     INIT_HP))
    /\ idx' = idx + 1
    /\ UNCHANGED <<algo, INIT_HP, population_size, pc_p>>
    /\ UNCHANGED <<scoreVars, edaVars>>

\* One iteration in which a subscript INIT_HP[key] raises KeyError: the
\* constructor is not called and the exception leaves create_population.
LookupFails ==
    /\ pc_p = "loop"
    /\ Branch(algo).cls # "none"
    /\ idx < population_size
    /\ LET m == FirstMissing(Branch(algo).keys, INIT_HP)
       IN /\ m # 0
          /\ lookups' = lookups \cup {Branch(algo).keys[i] : i \in 1..m}
    /\ pc_p' = "raised"
    /\ UNCHANGED <<algo, INIT_HP, population_size, idx, population,
                   ctor_calls>>
    /\ UNCHANGED <<scoreVars, edaVars>>

\* Line 367: return population, after the loop of the branch taken or after
\* no branch at all.
ReturnPopulation ==
    /\ pc_p = "loop"
    /\ \/ Branch(algo).cls = "none"
       \/ idx >= population_size
    /\ pc_p' = "returned"
    /\ UNCHANGED <<algo, INIT_HP, population_size, idx, population, lookups,
                   ctor_calls>>
    /\ UNCHANGED <<scoreVars, edaVars>>

(***************************************************************************)
(* get_env_defined_actions (lines 464-472)                                 *)
(***************************************************************************)

\* Python's None
None == "None"

AgentIds == {"agent_0", "agent_1", "agent_2"}

\* The values an environment defines as actions.
Actions == {"left", "right"}

\* The info dicts of one agent: with or without an "env_defined_action"
\* entry (whose value may be None), next to an unrelated entry.
InfoDicts ==
    {[k \in {"action_mask"} |-> "mask"]}
    \cup {[k \in {"action_mask", "env_defined_action"} |->
              IF k = "action_mask" THEN "mask" ELSE v] : v \in Actions \cup {None}}

\* dict.get(key, default)
DictGet(d, key, default) == IF key \in DOMAIN d THEN d[key] ELSE default

\* The dict of a comprehension that maps every element of the sequence to
\* the value computed for it (a repeated element keeps one key).
EnvDefinedActionsOf(i, ags) ==
    [a \in SeqRange(ags) |-> DictGet(i[a], "env_defined_action", None)]

\* A variant of AllNone: any() in place of all().
AnyNone(d) == \E a \in DOMAIN d : d[a] = None

\* all(eda is None for eda in d.values())
AllNone(d) == \A a \in DOMAIN d : d[a] = None

EmptyDict == [a \in {} |-> None]

EdaIdle ==
    /\ info = EmptyDict
    /\ agents = <<>>
    /\ env_defined_actions = EmptyDict
    /\ eda_result = [kind |-> "pending", value |-> EmptyDict]
    /\ pc_e = "idle"

\* The call: info holds an info dict for some of the agent ids, agents is
\* any short sequence of agent ids.
EdaInit ==
    /\ \E present \in SUBSET AgentIds : info \in [present -> InfoDicts]
    /\ \E n \in 0..MaxAgents : agents \in [1..n -> AgentIds]
    /\ env_defined_actions = EmptyDict
    /\ eda_result = [kind |-> "pending", value |-> EmptyDict]
    /\ pc_e = "build"

\* Lines 465-467: the dict comprehension.
BuildMapping ==
    /\ pc_e = "build"
    /\ SeqRange(agents) \subseteq DOMAIN info
    /\ env_defined_actions' = EnvDefinedActionsOf(info, agents)
    /\ pc_e' = "check"
    /\ UNCHANGED <<info, agents, eda_result>>
    /\ UNCHANGED <<scoreVars, popVars>>

\* Lines 465-467 when info[agent] raises KeyError for some agent.
InfoLookupFails ==
    /\ pc_e = "build"
    /\ ~(SeqRange(agents) \subseteq DOMAIN info)
    /\ eda_result' = [kind |-> "KeyError", value |-> EmptyDict]
    /\ pc_e' = "raised"
    /\ UNCHANGED <<info, agents, env_defined_actions>>
    /\ UNCHANGED <<scoreVars, popVars>>

\* Lines 469-470: a bare return (None) when every value is None.
ReturnNone ==
    /\ pc_e = "check"
    /\ AllNone(env_defined_actions)
    /\ eda_result' = [kind |-> "None", value |-> EmptyDict]
    /\ pc_e' = "returned"
    /\ UNCHANGED <<info, agents, env_defined_actions>>
    /\ UNCHANGED <<scoreVars, popVars>>

\* Line 472: return env_defined_actions.
ReturnMapping ==
    /\ pc_e = "check"
    /\ ~AllNone(env_defined_actions)
    /\ eda_result' = [kind |-> "dict", value |-> env_defined_actions]
    /\ pc_e' = "returned"
    /\ UNCHANGED <<info, agents, env_defined_actions>>
    /\ UNCHANGED <<scoreVars, popVars>>

(***************************************************************************)
(* Specifications                                                          *)
(***************************************************************************)
InitScores == ScoresInit /\ PopIdle /\ EdaIdle

NextScores ==
    \/ NoTerminations
    \/ BeginSegmenting
    \/ EpisodeStep
    \/ TrailingEpisode
    \/ ReturnScores

SpecScores == InitScores /\ [][NextScores]_vars

InitPop == PopInit /\ ScoresIdle /\ EdaIdle

NextPop ==
    \/ ConstructAgent
    \/ LookupFails
    \/ ReturnPopulation

SpecPop == InitPop /\ [][NextPop]_vars

InitEda == EdaInit /\ ScoresIdle /\ PopIdle

NextEda ==
    \/ BuildMapping
    \/ InfoLookupFails
    \/ ReturnNone
    \/ ReturnMapping

SpecEda == InitEda /\ [][NextEda]_vars

(***************************************************************************)
(* The whole function on a one-row array, as a value: what                  *)
(* calculate_vectorized_scores(rewards[e:e+1], terminations[e:e+1], ...)    *)
(* returns (lines 390-431 with num_envs = 1).                               *)
(***************************************************************************)
RECURSIVE WalkTerminations(_, _, _, _)
WalkTerminations(rrow, tis, k, start) ==
    IF k > Len(tis)
    THEN <<>>
    ELSE <<SumSlice(rrow, start, tis[k] + 1)>>
         \o WalkTerminations(rrow, tis, k + 1, tis[k] + 1)

ScoresOfOneRow(rrow, trow, inc_unterminated, first_only) ==
    LET tis == WhereOne(trow)
        last_start == tis[Len(tis)] + 1
    IN IF Len(tis) = 0
       THEN <<SumAll(rrow)>>
       ELSE IF first_only
            THEN <<SumSlice(rrow, 0, tis[1] + 1)>>
            ELSE WalkTerminations(rrow, tis, 1, 0)
                 \o (IF inc_unterminated /\ last_start < ArrLen(rrow)
                     THEN <<SumSlice(rrow, last_start, ArrLen(rrow))>>
                     ELSE <<>>)

(***************************************************************************)
(* Vocabulary of the properties of calculate_vectorized_scores             *)
(***************************************************************************)

\* The positions of episode_rewards that row e appended, ascending.
RECURSIVE PositionsOfRowFrom(_, _)
PositionsOfRowFrom(e, i) ==
    IF i > Len(score_env)
    THEN <<>>
    ELSE IF score_env[i] = e
         THEN <<i>> \o PositionsOfRowFrom(e, i + 1)
         ELSE PositionsOfRowFrom(e, i + 1)

PositionsOfRow(e) == PositionsOfRowFrom(e, 1)

\* The scores row e contributed, in output order, and the slices they sum.
ScoresOfRow(e) ==
    [k \in 1..Len(PositionsOfRow(e)) |-> episode_rewards[PositionsOfRow(e)[k]]]

WindowsOfRow(e) ==
    [k \in 1..Len(PositionsOfRow(e)) |-> score_window[PositionsOfRow(e)[k]]]

RECURSIVE SeqSum(_)
SeqSum(q) == IF q = <<>> THEN 0 ELSE Head(q) + SeqSum(Tail(q))

\* Rows the outer loop has finished with.
FinishedRows == {e \in DOMAIN rewards : e < env_index}

RowLen(e) == ArrLen(rewards[e])

\* The steps of row e whose termination indicator is 1.
TerminatedSteps(e) == {i \in DOMAIN terminations[e] : terminations[e][i] = 1}

\* The k-th smallest of them (k = 1..m), and -1 for k = 0.
KthTermination(e, k) ==
    IF k = 0
    THEN -1
    ELSE CHOOSE t \in TerminatedSteps(e) :
             Cardinality({u \in TerminatedSteps(e) : u < t}) = k - 1

NumTerminations(e) == Cardinality(TerminatedSteps(e))

\* sum of rewards[e] over the steps lo..hi inclusive
SumSteps(e, lo, hi) == SumSlice(rewards[e], lo, hi + 1)

\* The slices tile the row: the first starts at step 0, each next one starts
\* where the one before ended, the last one ends at the row's end.
Tiles(ws, n) ==
    /\ Len(ws) >= 1
    /\ ws[1][1] = 0
    /\ ws[Len(ws)][2] = n
    /\ \A k \in 1..Len(ws) : ws[k][1] <= ws[k][2]
    /\ \A k \in 1..(Len(ws) - 1) : ws[k + 1][1] = ws[k][2]

\* C3: with include_unterminated=True and only_first_episode=False the scores
\* a finished row contributed sum to the sum of the row's rewards, and the
\* slices they were summed over tile the row (no step twice, none dropped).
C3_ScoresPartitionRow ==
    (include_unterminated /\ ~only_first_episode) =>
        \A e \in FinishedRows :
            /\ SeqSum(ScoresOfRow(e)) = SumAll(rewards[e])
            /\ Tiles(WindowsOfRow(e), RowLen(e))

\* A finished call in full-accumulation mode holding a row that ends on a
\* termination and a row with a termination mid-row and an open tail.
C3_Witness ==
    /\ pc_s = "done"
    /\ include_unterminated /\ ~only_first_episode
    /\ \E e \in FinishedRows :
          /\ RowLen(e) = MaxSteps
          /\ terminations[e][RowLen(e) - 1] = 1
          /\ NumTerminations(e) >= 2
    /\ \E e \in FinishedRows :
          /\ RowLen(e) = MaxSteps
          /\ terminations[e][RowLen(e) - 1] = 0
          /\ NumTerminations(e) >= 1
          /\ Len(ScoresOfRow(e)) = NumTerminations(e) + 1

\* C4: with only_first_episode=True a finished row that has a termination
\* contributed exactly one score, the sum of the rewards of steps 0 through
\* the first termination, whatever include_unterminated is.
C4_OnlyFirstEpisode ==
    only_first_episode =>
        \A e \in FinishedRows :
            NumTerminations(e) >= 1 =>
                ScoresOfRow(e) = <<SumSteps(e, 0, KthTermination(e, 1))>>

\* A finished first-episode-only call, include_unterminated=True, with a row
\* that has two terminations and rewards after the first.
C4_Witness ==
    /\ pc_s = "done"
    /\ only_first_episode /\ include_unterminated
    /\ \E e \in FinishedRows :
          /\ NumTerminations(e) >= 2
          /\ KthTermination(e, 1) = 0
          /\ Len(ScoresOfRow(e)) = 1

\* C5: a finished row without a termination contributed exactly one score,
\* the sum of all its rewards, under every combination of the two flags.
C5_NoTerminationWholeRow ==
    \A e \in FinishedRows :
        NumTerminations(e) = 0 => ScoresOfRow(e) = <<SumAll(rewards[e])>>

\* A finished call with include_unterminated=False and a non-empty row
\* without a termination.
C5_Witness ==
    /\ pc_s = "done"
    /\ ~include_unterminated
    /\ \E e \in FinishedRows :
          /\ NumTerminations(e) = 0
          /\ RowLen(e) = MaxSteps
          /\ Len(ScoresOfRow(e)) = 1

\* C6: with only_first_episode=False and include_unterminated=False a finished
\* row with m >= 1 terminations t1 < ... < tm contributed exactly m scores, the
\* k-th being the sum of the rewards of steps t(k-1)+1 .. tk (t0 = -1).
C6_OneScorePerTermination ==
    (~only_first_episode /\ ~include_unterminated) =>
        \A e \in FinishedRows :
            NumTerminations(e) >= 1 =>
                ScoresOfRow(e) =
                    [k \in 1..NumTerminations(e) |->
                        SumSteps(e, KthTermination(e, k - 1) + 1,
                                 KthTermination(e, k))]

\* A finished call in that mode with a row of two terminations, the last one
\* before the row's end.
C6_Witness ==
    /\ pc_s = "done"
    /\ ~only_first_episode /\ ~include_unterminated
    /\ \E e \in FinishedRows :
          /\ NumTerminations(e) = 2
          /\ terminations[e][RowLen(e) - 1] = 0
          /\ Len(ScoresOfRow(e)) = 2

\* C7: with only_first_episode=False a finished row with m >= 1 terminations
\* contributed one more score than it has terminations exactly when
\* include_unterminated=True and its last termination is not on its final
\* step; that score is the row's last and is the sum of the rewards after the
\* last termination; otherwise the row contributed m scores.
TrailingExpected(e) ==
    include_unterminated /\ KthTermination(e, NumTerminations(e)) # RowLen(e) - 1

C7_TrailingScore ==
    ~only_first_episode =>
        \A e \in FinishedRows :
            NumTerminations(e) >= 1 =>
                LET m == NumTerminations(e)
                    q == ScoresOfRow(e)
                IN IF TrailingExpected(e)
                   THEN /\ Len(q) = m + 1
                        /\ q[m + 1] = SumSteps(e, KthTermination(e, m) + 1,
                                               RowLen(e) - 1)
                        /\ WindowsOfRow(e)[m + 1] =
                               <<KthTermination(e, m) + 1, RowLen(e)>>
                   ELSE Len(q) = m

\* A finished call with include_unterminated=True holding a row whose last
\* termination is on the final step (no trailing score) and a row whose last
\* termination is earlier (a trailing score).
C7_Witness ==
    /\ pc_s = "done"
    /\ ~only_first_episode /\ include_unterminated
    /\ \E e \in FinishedRows :
          /\ NumTerminations(e) >= 1
          /\ ~TrailingExpected(e)
          /\ Len(ScoresOfRow(e)) = NumTerminations(e)
    /\ \E e \in FinishedRows :
          /\ NumTerminations(e) >= 1
          /\ TrailingExpected(e)
          /\ Len(ScoresOfRow(e)) = NumTerminations(e) + 1

\* The concatenation, in row order, of the function's results on the rows
\* e .. num_envs-1 taken alone.
RECURSIVE ConcatRowsFrom(_)
ConcatRowsFrom(e) ==
    IF e >= NumEnvs
    THEN <<>>
    ELSE ScoresOfOneRow(rewards[e], terminations[e], include_unterminated,
                        only_first_episode)
         \o ConcatRowsFrom(e + 1)

\* C8: the list returned for a multi-row input is the concatenation, in row
\* order, of the lists the function returns for each row alone, and the scores
\* come out environment-major.
C8_RowsIndependent ==
    /\ \A i, j \in 1..Len(score_env) : i < j => score_env[i] <= score_env[j]
    /\ pc_s = "done" => episode_rewards = ConcatRowsFrom(0)

\* A finished call on two rows that both went through the segmenting loop,
\* the first leaving start_index past its last termination.
C8_Witness ==
    /\ pc_s = "done"
    /\ NumEnvs = MaxEnvs
    /\ ~only_first_episode
    /\ \A e \in FinishedRows : NumTerminations(e) >= 1
    /\ KthTermination(0, 1) # KthTermination(1, 1)
    /\ Len(episode_rewards) >= 4

(***************************************************************************)
(* Properties of create_population                                         *)
(***************************************************************************)

\* The constructor each recognized identifier names.
ClassOf(a) ==
    CASE a = "Rainbow DQN" -> "RainbowDQN"
      [] OTHER -> a

\* C1: for a recognized algo the agents built so far carry the indices
\* 0, 1, 2, ... in list order and are of the algo's class, and the list that
\* is returned holds exactly population_size of them.
C1_IndicesInCreationOrder ==
    algo \in RecognizedAlgos =>
        /\ \A k \in 1..Len(population) :
              /\ population[k].index = k - 1
              /\ population[k].cls = ClassOf(algo)
        /\ pc_p = "returned" => Len(population) = population_size

\* A returned population of the largest size, of a multi-agent algorithm.
C1_Witness ==
    /\ pc_p = "returned"
    /\ algo = "MATD3"
    /\ population_size = MaxPop
    /\ Len(population) = MaxPop
    /\ ctor_calls = MaxPop

\* C2: for an algo outside the recognized set no exception is raised, no
\* constructor is called, no hyperparameter is looked up, and the population
\* stays empty up to and including the return.
C2_UnrecognizedAlgoEmpty ==
    algo \notin RecognizedAlgos =>
        /\ pc_p # "raised"
        /\ population = <<>>
        /\ ctor_calls = 0
        /\ lookups = {}

\* A call with an unrecognized algo, a positive population_size and an empty
\* hyperparameter dict that has returned.
C2_Witness ==
    /\ pc_p = "returned"
    /\ algo \in OtherAlgos
    /\ population_size = MaxPop
    /\ DOMAIN INIT_HP = {}
    /\ population = <<>>

\* The required-keys table of the specification (section 4.2), row by row;
\* "+" on the Rainbow DQN row adds to the DQN row, TD3 is "same as DDPG", and
\* POLICY_FREQ is "MATD3 only" among the multi-agent rows.
TableDQN == {"BATCH_SIZE", "LR", "LEARN_STEP", "GAMMA", "TAU", "DOUBLE"}

TableDDPG ==
    {"MAX_ACTION", "MIN_ACTION", "O_U_NOISE", "EXPL_NOISE", "MEAN_NOISE",
     "THETA", "DT", "BATCH_SIZE", "LR_ACTOR", "LR_CRITIC", "LEARN_STEP",
     "GAMMA", "TAU", "POLICY_FREQ"}

TableKeys(a) ==
    CASE a = "DQN" -> TableDQN
      [] a = "Rainbow DQN" ->
             TableDQN \cup {"BETA", "PRIOR_EPS", "NUM_ATOMS", "V_MIN", "V_MAX",
                            "N_STEP"}
      [] a = "DDPG" -> TableDDPG
      [] a = "PPO" ->
             {"DISCRETE_ACTIONS", "BATCH_SIZE", "LR", "LEARN_STEP", "GAMMA",
              "GAE_LAMBDA", "ACTION_STD_INIT", "CLIP_COEF", "ENT_COEF",
              "VF_COEF", "MAX_GRAD_NORM", "TARGET_KL", "UPDATE_EPOCHS"}
      [] a = "CQN" -> TableDQN
      [] a = "TD3" -> TableDDPG
      [] a = "MADDPG" ->
             (TableDDPG \ {"POLICY_FREQ"})
             \cup {"N_AGENTS", "AGENT_IDS", "DISCRETE_ACTIONS"}
      [] a = "MATD3" ->
             TableDDPG \cup {"N_AGENTS", "AGENT_IDS", "DISCRETE_ACTIONS"}
      [] a \in {"NeuralUCB", "NeuralTS"} ->
             {"GAMMA", "LAMBDA", "REG", "BATCH_SIZE", "LR", "LEARN_STEP"}
      [] OTHER -> {}

\* C10 as stated: for a recognized algo and a hyperparameter dict lacking a key
\* of the algo's table row, create_population never returns a population,
\* whatever population_size is.
C10_MissingTableKeyRaises ==
    (algo \in RecognizedAlgos /\ \E k \in TableKeys(algo) : k \notin DOMAIN INIT_HP)
        => pc_p # "returned"

\* The same statement for population_size >= 1 only: it fails as well, for
\* Rainbow DQN and a dict that lacks DOUBLE alone (lines 131-151 never
\* subscript "DOUBLE").
MissingTableKeyRaisesWhenNonEmpty ==
    (/\ algo \in RecognizedAlgos
     /\ population_size >= 1
     /\ \E k \in TableKeys(algo) : k \notin DOMAIN INIT_HP)
        => pc_p # "returned"

\* The keys of the table row that the algo's branch never subscripts.
KeysNeverRead(a) == IF a = "Rainbow DQN" THEN {"DOUBLE"} ELSE {}

\* C10 amended: for a recognized algo, population_size >= 1 and a
\* hyperparameter dict lacking a key of the algo's table row other than DOUBLE
\* for Rainbow DQN, no agent is constructed, nothing is returned, and the first
\* loop iteration ends in the lookup failure.
C10_MissingReadKeyRaises ==
    (/\ algo \in RecognizedAlgos
     /\ population_size >= 1
     /\ \E k \in TableKeys(algo) \ KeysNeverRead(algo) : k \notin DOMAIN INIT_HP)
        => /\ pc_p \in {"loop", "raised"}
           /\ population = <<>>
           /\ ctor_calls = 0
           /\ pc_p = "loop" => ENABLED LookupFails

\* A raised lookup failure of the Rainbow DQN branch for a dict that lacks
\* only the last key the branch reads.
C10_Witness ==
    /\ pc_p = "raised"
    /\ algo = "Rainbow DQN"
    /\ population_size = MaxPop
    /\ HPKeys \ DOMAIN INIT_HP = {"N_STEP"}
    /\ "V_MAX" \in lookups

(***************************************************************************)
(* Properties of get_env_defined_actions                                   *)
(***************************************************************************)

\* The "env_defined_action" entry of an agent's info dict is absent or None.
NoEnvDefinedAction(a) ==
    \/ "env_defined_action" \notin DOMAIN info[a]
    \/ info[a]["env_defined_action"] = None

\* C9: a call whose info holds an info dict for every agent returns; it
\* returns None when no agent has an "env_defined_action" entry other than
\* None, and otherwise a dict whose keys are exactly the given agents, each
\* mapped to its entry, or to None when it has none.
C9_EnvDefinedActions ==
    /\ (pc_e = "raised") => ~(SeqRange(agents) \subseteq DOMAIN info)
    /\ (pc_e = "returned") =>
          IF \A a \in SeqRange(agents) : NoEnvDefinedAction(a)
          THEN eda_result.kind = "None"
          ELSE /\ eda_result.kind = "dict"
               /\ DOMAIN eda_result.value = SeqRange(agents)
               /\ \A a \in SeqRange(agents) :
                     eda_result.value[a] =
                         IF NoEnvDefinedAction(a)
                         THEN None
                         ELSE info[a]["env_defined_action"]

\* A returned dict for two agents, one with a defined action and one without
\* an entry.
C9_Witness ==
    /\ pc_e = "returned"
    /\ eda_result.kind = "dict"
    /\ Len(agents) = MaxAgents
    /\ \E a, b \in SeqRange(agents) :
          /\ eda_result.value[a] \in Actions
          /\ "env_defined_action" \notin DOMAIN info[b]
          /\ eda_result.value[b] = None

====
